---- MODULE Spec2Model ----
(***************************************************************************)
(* Character-class search in UTF-8 strings: stri_replace_all_charclass,    *)
(* stri_replace_first/last_charclass, stri_locate_first/last_charclass and *)
(* stri_locate_all_charclass.  One call is a loop over the rows of its     *)
(* (recycled) argument vectors; one action of the model is one pass of     *)
(* that loop body.  Byte offsets are 0-based as in the C++ code, code      *)
(* point indices are 1-based as in the results.                            *)
(***************************************************************************)
EXTENDS Integers, Sequences, FiniteSets, TLC

VARIABLES op, n, pattern, replacement, merge, i, ret, buf, cur, outcomes, status, returned

vars == <<op, n, pattern, replacement, merge, i, ret, buf, cur, outcomes, status, returned>>

(***************************************************************************)
(* Bounds of the model.                                                    *)
(***************************************************************************)
\* longest string (in bytes) of a one-row call
MaxLen == 5
\* longest string (in bytes) of a row of a several-row call
MaxBatchLen == 2
\* largest vectorize_length of a several-row call
MaxRows == 2

(***************************************************************************)
(* Bytes.  0x61 'a', 0xC3 (lead of a 2-byte sequence), 0xE2 (lead of a     *)
(* 3-byte sequence), 0xA9 (trail byte): C3 A9 is U+00E9, E2 A9 A9 is       *)
(* U+2A69, everything else over these bytes is malformed.                  *)
(***************************************************************************)
Alphabet == {97, 195, 226, 169}

RECURSIVE SeqsUpTo(_, _)
SeqsUpTo(S, len) ==
    IF len = 0 THEN {<<>>}
    ELSE LET shorter == SeqsUpTo(S, len - 1)
         IN  shorter \cup {Append(t, b) : t \in {u \in shorter : Len(u) = len - 1}, b \in S}

\* the byte at 0-based offset k of s: s[k] of the C++ code
At(s, k) == s[k + 1]

(***************************************************************************)
(* U8_NEXT(s, i, length, c): decode the code point starting at offset j.   *)
(* The result is the code point (negative: U_SENTINEL, malformed) and the  *)
(* offset after it.  The two inline branches of the macro are translated   *)
(* as written; its last branch, utf8_nextCharSafeBody, returns U_SENTINEL  *)
(* for a trail byte and for a lead of the inline ranges that is not        *)
(* followed by its trail bytes, the only cases bytes of Alphabet reach.    *)
(***************************************************************************)
IsTrail(b) == b >= 128 /\ b <= 191

U8_NEXT(s, j, length) ==
    LET c == At(s, j) IN
    IF c < 128 THEN [c |-> c, j |-> j + 1]
    ELSE IF /\ 224 < c /\ c <= 236
            /\ j + 2 < length
            /\ IsTrail(At(s, j + 1))
            /\ IsTrail(At(s, j + 2))
         THEN [c |-> (c * 4096 + (At(s, j + 1) - 128) * 64 + (At(s, j + 2) - 128)) % 65536,
               j |-> j + 3]
    ELSE IF /\ c < 224 /\ c >= 194
            /\ j + 1 < length
            /\ IsTrail(At(s, j + 1))
         THEN [c |-> (c % 32) * 64 + (At(s, j + 1) - 128), j |-> j + 2]
    ELSE [c |-> -1, j |-> j + 1]

(***************************************************************************)
(* U8_PREV(s, 0, i, c): decode the code point ending right before offset   *)
(* j, by utf8_prevCharSafeBody for a non-ASCII byte: collect trail bytes   *)
(* going backward until a lead byte, which must announce exactly the       *)
(* number of trail bytes collected and give a legal, shortest-form value.  *)
(***************************************************************************)
CountTrailBytes(b) ==
    IF b < 192 THEN 0
    ELSE IF b < 224 THEN 1
    ELSE IF b < 240 THEN 2
    ELSE IF b < 248 THEN 3
    ELSE IF b < 252 THEN 4
    ELSE 5

Pow2(k) == CASE k = 0 -> 1 [] k = 1 -> 2 [] k = 2 -> 4 [] k = 3 -> 8
             [] k = 4 -> 16 [] k = 5 -> 32 [] k = 6 -> 64 [] k = 12 -> 4096
             [] k = 18 -> 262144 [] k = 24 -> 16777216 [] k = 30 -> 1073741824

MinLegal(count) == CASE count = 0 -> 0 [] count = 1 -> 128 [] count = 2 -> 2048
                     [] count = 3 -> 65536 [] OTHER -> 2147483647

RECURSIVE PrevBody(_, _, _, _, _)
PrevBody(s, j, c, count, shift) ==
    IF j <= 0 THEN [c |-> -1, j |-> j]
    ELSE
      LET b == At(s, j - 1) IN
      IF b >= 128 /\ b < 254
      THEN IF b >= 192
           THEN IF count = CountTrailBytes(b)
                THEN LET v == c + (b % Pow2(6 - count)) * Pow2(shift) IN
                     IF \/ count >= 4 \/ v > 1114111 \/ v < MinLegal(count)
                        \/ (v >= 55296 /\ v <= 57343)
                     THEN [c |-> -1, j |-> j - 1]
                     ELSE [c |-> v, j |-> j - 1]
                ELSE [c |-> -1, j |-> j - 1]
           ELSE IF count < 5
                THEN PrevBody(s, j - 1, c + (b % 64) * Pow2(shift), count + 1, shift + 6)
                ELSE [c |-> -1, j |-> j - 1]
      ELSE [c |-> -1, j |-> j - 1]

U8_PREV(s, j) ==
    LET c == At(s, j - 1) IN
    IF c < 128 THEN [c |-> c, j |-> j - 1]
    ELSE IF ~IsTrail(c) THEN [c |-> -1, j |-> j - 1]
    ELSE PrevBody(s, j - 1, c % 64, 1, 6)

(***************************************************************************)
(* Inputs.  An element of an argument vector is missing (NA) or a value.   *)
(* A character class is the set of code points its UnicodeSet contains.    *)
(***************************************************************************)
NA(v) == [na |-> TRUE, v |-> v]
Val(v) == [na |-> FALSE, v |-> v]

Classes == {{}, {97}, {233, 10857}, {97, 233, 10857}}
Replacements == {<<>>, <<95>>, <<195, 169>>}

StrInputs(len) == {NA(<<>>)} \cup {Val(s) : s \in SeqsUpTo(Alphabet, len)}
PatternInputs == {NA({})} \cup {Val(P) : P \in Classes}
ReplacementInputs == {NA(<<>>)} \cup {Val(r) : r \in Replacements}
LogicalInputs == {NA(FALSE), Val(FALSE), Val(TRUE)}

ReplaceOps == {"replace_all", "replace_first", "replace_last"}
LocateOps == {"locate_first", "locate_last", "locate_all"}
Ops == ReplaceOps \cup LocateOps

\* R's NA_integer_
NA_INTEGER == -2147483647 - 1
\* a byte of freshly allocated memory: no value the code ever stored
Junk == -1

(***************************************************************************)
(* Pieces of the loop bodies.                                              *)
(***************************************************************************)
\* variant: the test expects U+FFFD for a malformed sequence, not a negative value
IsInvalidReplacementChar(chr) == chr = 65533

\* chr < 0: invalid utf-8 sequence
IsInvalid(chr) == chr < 0

\* pattern_cur->contains(chr)
Contains(P, chr) == chr \in P

\* variant: the start of the last span is compared, not its end
ExtendsBackFromStart(merge_cur, occurrences, jlast) ==
    /\ merge_cur
    /\ Len(occurrences) > 0
    /\ occurrences[Len(occurrences)][1] = jlast

\* replace_all: the match at [jlast, j) extends the last span
ExtendsBack(merge_cur, occurrences, jlast) ==
    /\ merge_cur
    /\ Len(occurrences) > 0
    /\ occurrences[Len(occurrences)][2] = jlast

\* replace_all: the scan loop, from offset j with the spans found so far
RECURSIVE ReplaceAllScan(_, _, _, _, _, _, _)
ReplaceAllScan(s, P, merge_cur, j, jlast, occurrences, sumbytes) ==
    IF ~(j < Len(s))
    THEN [err |-> FALSE, occurrences |-> occurrences, sumbytes |-> sumbytes]
    ELSE
      LET d == U8_NEXT(s, j, Len(s)) IN
      IF IsInvalid(d.c)
      THEN [err |-> TRUE, occurrences |-> occurrences, sumbytes |-> sumbytes]
      ELSE IF Contains(P, d.c)
      THEN LET occ2 == IF ExtendsBack(merge_cur, occurrences, jlast)
                       THEN [occurrences EXCEPT ![Len(occurrences)] = <<@[1], d.j>>]
                       ELSE Append(occurrences, <<jlast, d.j>>)
           IN  ReplaceAllScan(s, P, merge_cur, d.j, d.j, occ2, sumbytes + (d.j - jlast))
      ELSE ReplaceAllScan(s, P, merge_cur, d.j, d.j, occurrences, sumbytes)

\* variant: the test for a row without occurrences is left out
NoOccurrencesUntested(occurrences) == FALSE

\* occurrences.size() == 0
NoOccurrences(occurrences) == Len(occurrences) = 0

\* variant: every match is taken to be one byte long
BufNeedAllOneBytePerMatch(str_cur_n, occurrences, replacement_cur_n, sumbytes) ==
    str_cur_n + Len(occurrences) * replacement_cur_n - Len(occurrences)

\* replace_all: the size of the result
BufNeedAll(str_cur_n, occurrences, replacement_cur_n, sumbytes) ==
    str_cur_n + Len(occurrences) * replacement_cur_n - sumbytes

\* replace_first/last: the size of the result
BufNeedOne(str_cur_n, replacement_cur_n, j, jlast) ==
    str_cur_n + replacement_cur_n - (j - jlast)

(***************************************************************************)
(* The scratch buffer.  mem.data is the memory at buf.data(), its length   *)
(* the allocated size; mem.written the offsets written in this row,        *)
(* mem.overflow whether a write went past the allocated size.              *)
(***************************************************************************)
\* buf.resize(size, false): keeps the memory when it is large enough,
\* otherwise allocates afresh without copying
Resize(data, size) ==
    IF Len(data) >= size THEN data ELSE [k \in 1..size |-> Junk]

\* memcpy(buf.data() + dst, src + from, len)
Memcpy(mem, dst, src, from, len) ==
    LET newlen == IF dst + len > Len(mem.data) THEN dst + len ELSE Len(mem.data) IN
    [data |-> [k \in 1..newlen |->
                 IF k - 1 >= dst /\ k - 1 < dst + len THEN At(src, from + (k - 1 - dst))
                 ELSE IF k <= Len(mem.data) THEN mem.data[k]
                 ELSE Junk],
     cap |-> mem.cap,
     written |-> mem.written \cup {k \in dst..(dst + len - 1) : TRUE},
     overflow |-> mem.overflow \/ (len > 0 /\ dst + len > mem.cap)]

\* replace_all: the copy loop over the spans, then the trailing remainder
RECURSIVE CopySpans(_, _, _, _, _, _, _)
CopySpans(mem, s, r, occurrences, iter, jlast, curbuf) ==
    IF iter > Len(occurrences)
    THEN Memcpy(mem, curbuf, s, jlast, Len(s) - jlast)
    ELSE
      LET match == occurrences[iter]
          m1 == Memcpy(mem, curbuf, s, jlast, match[1] - jlast)
          c1 == curbuf + (match[1] - jlast)
          m2 == Memcpy(m1, c1, r, 0, Len(r))
      IN  CopySpans(m2, s, r, occurrences, iter + 1, match[2], c1 + Len(r))

\* replace_first/last: prefix, replacement, suffix
CopyOne(mem, s, r, j, jlast) ==
    LET m1 == Memcpy(mem, 0, s, 0, jlast)
        m2 == Memcpy(m1, jlast, r, 0, Len(r))
    IN  Memcpy(m2, jlast + Len(r), s, j, Len(s) - j)

\* Rf_mkCharLenCE(buf.data(), buf_need, CE_UTF8)
MkCharLen(data, len) == [kind |-> "new", bytes |-> SubSeq(data, 1, len)]
\* variant: a row without a match gives NA_STRING
ToRMissing(s) == [kind |-> "NA", bytes |-> <<>>]
\* str_cont.toR(i): the input's own string object
ToR(s) == [kind |-> "orig", bytes |-> s]
\* NA_STRING
NA_STRING == [kind |-> "NA", bytes |-> <<>>]

\* replace_first: the forward search
RECURSIVE SearchFirst(_, _, _, _)
SearchFirst(s, P, j, jlast) ==
    IF ~(j < Len(s)) THEN [err |-> FALSE, j |-> j, jlast |-> jlast]
    ELSE
      LET d == U8_NEXT(s, j, Len(s)) IN
      IF IsInvalid(d.c) THEN [err |-> TRUE, j |-> d.j, jlast |-> jlast]
      ELSE IF Contains(P, d.c) THEN [err |-> FALSE, j |-> d.j, jlast |-> jlast]
      ELSE SearchFirst(s, P, d.j, d.j)

\* variant: j does not follow jlast, so the span runs to the end of the string
RECURSIVE SearchLastKeepsEnd(_, _, _, _)
SearchLastKeepsEnd(s, P, j, jlast) ==
    IF ~(jlast > 0) THEN [err |-> FALSE, j |-> jlast, jlast |-> jlast]
    ELSE
      LET d == U8_PREV(s, jlast) IN
      IF IsInvalid(d.c) THEN [err |-> TRUE, j |-> j, jlast |-> d.j]
      ELSE IF Contains(P, d.c) THEN [err |-> FALSE, j |-> j, jlast |-> d.j]
      ELSE SearchLastKeepsEnd(s, P, j, d.j)

\* replace_last: the backward search
RECURSIVE SearchLast(_, _, _, _)
SearchLast(s, P, j, jlast) ==
    IF ~(jlast > 0) THEN [err |-> FALSE, j |-> j, jlast |-> jlast]
    ELSE
      LET d == U8_PREV(s, jlast) IN
      IF IsInvalid(d.c) THEN [err |-> TRUE, j |-> j, jlast |-> d.j]
      ELSE IF Contains(P, d.c) THEN [err |-> FALSE, j |-> j, jlast |-> d.j]
      ELSE SearchLast(s, P, d.j, d.j)

\* j == jlast: iff not found
NotFound(j, jlast) == j = jlast

\* variant: the byte offset after the match is stored, not the index k
RECURSIVE LocateScanByteOffset(_, _, _, _, _, _)
LocateScanByteOffset(s, P, first, j, k, found) ==
    IF ~(j < Len(s)) THEN [err |-> FALSE, found |-> found]
    ELSE
      LET d == U8_NEXT(s, j, Len(s)) IN
      IF IsInvalid(d.c) THEN [err |-> TRUE, found |-> found]
      ELSE IF Contains(P, d.c)
      THEN IF first THEN [err |-> FALSE, found |-> d.j]
           ELSE LocateScanByteOffset(s, P, first, d.j, k + 1, d.j)
      ELSE LocateScanByteOffset(s, P, first, d.j, k + 1, found)

\* locate_first/last: the scan loop; found is ret_tab[i]
RECURSIVE LocateScan(_, _, _, _, _, _)
LocateScan(s, P, first, j, k, found) ==
    IF ~(j < Len(s)) THEN [err |-> FALSE, found |-> found]
    ELSE
      LET d == U8_NEXT(s, j, Len(s)) IN
      IF IsInvalid(d.c) THEN [err |-> TRUE, found |-> found]
      ELSE IF Contains(P, d.c)
      THEN IF first THEN [err |-> FALSE, found |-> k + 1]
           ELSE LocateScan(s, P, first, d.j, k + 1, k + 1)
      ELSE LocateScan(s, P, first, d.j, k + 1, found)

\* variant: k is incremented after the test, so the indices are 0-based
RECURSIVE LocateAllScanZeroBased(_, _, _, _, _)
LocateAllScanZeroBased(s, P, j, k, occurrences) ==
    IF ~(j < Len(s)) THEN [err |-> FALSE, occurrences |-> occurrences]
    ELSE
      LET d == U8_NEXT(s, j, Len(s)) IN
      IF IsInvalid(d.c) THEN [err |-> TRUE, occurrences |-> occurrences]
      ELSE IF Contains(P, d.c)
      THEN LocateAllScanZeroBased(s, P, d.j, k + 1, Append(occurrences, k))
      ELSE LocateAllScanZeroBased(s, P, d.j, k + 1, occurrences)

\* locate_all: the scan loop collecting code point indices
RECURSIVE LocateAllScan(_, _, _, _, _)
LocateAllScan(s, P, j, k, occurrences) ==
    IF ~(j < Len(s)) THEN [err |-> FALSE, occurrences |-> occurrences]
    ELSE
      LET d == U8_NEXT(s, j, Len(s)) IN
      IF IsInvalid(d.c) THEN [err |-> TRUE, occurrences |-> occurrences]
      ELSE IF Contains(P, d.c)
      THEN LocateAllScan(s, P, d.j, k + 1, Append(occurrences, k + 1))
      ELSE LocateAllScan(s, P, d.j, k + 1, occurrences)

\* variant: the end of the last sequence is compared with curoccur itself
ContinuesSeqOffByOne(occurrences2, curoccur) ==
    occurrences2[Len(occurrences2)][2] = curoccur

\* locate_all: curoccur continues the last sequence
ContinuesSeq(occurrences2, curoccur) ==
    occurrences2[Len(occurrences2)][2] = curoccur - 1

\* locate_all: the merge loop, from the iter-th occurrence
RECURSIVE MergeOccurrences(_, _, _)
MergeOccurrences(occurrences, iter, occurrences2) ==
    IF iter > Len(occurrences) THEN occurrences2
    ELSE
      LET curoccur == occurrences[iter] IN
      IF ContinuesSeq(occurrences2, curoccur)
      THEN MergeOccurrences(occurrences, iter + 1,
               [occurrences2 EXCEPT ![Len(occurrences2)] = <<@[1], curoccur>>])
      ELSE MergeOccurrences(occurrences, iter + 1,
               Append(occurrences2, <<curoccur, curoccur>>))

\* variant: two occurrences are not merged
DoMergeFromThree(merge_cur, noccurrences) == merge_cur /\ noccurrences > 2

\* merge_cur && noccurrences > 1
DoMerge(merge_cur, noccurrences) == merge_cur /\ noccurrences > 1

\* locate_all: the matrix of a row with at least one occurrence, as its rows
LocateAllMatrix(merge_cur, occurrences) ==
    IF DoMerge(merge_cur, Len(occurrences))
    THEN MergeOccurrences(occurrences, 2, <<<<occurrences[1], occurrences[1]>>>>)
    ELSE [f \in 1..Len(occurrences) |-> <<occurrences[f], occurrences[f]>>]

\* stri__matrix_NA_INTEGER(1, 2)
notfound == <<<<NA_INTEGER, NA_INTEGER>>>>

(***************************************************************************)
(* One pass of each loop body, as a function of the inputs of the row and  *)
(* of the scratch buffer: what happened (outcome), the element stored in   *)
(* ret, the buffer afterwards and the values of the locals.  cur holds the *)
(* locals of the last pass and outcomes what happened in each row that was *)
(* completed: "na" (a missing input), "nomatch" or "match".                *)
(***************************************************************************)
NoRow ==
    [str |-> NA(<<>>), outcome |-> "none", occurrences |-> <<>>, sumbytes |-> 0,
     j |-> 0, jlast |-> 0, buf_need |-> 0, written |-> {}, overflow |-> FALSE]

Mem(data) == [data |-> data, cap |-> Len(data), written |-> {}, overflow |-> FALSE]

\* variant: the merge flag is not tested
MissingAllButMerge(str, repl, pat, mrg) == str.na \/ repl.na \/ pat.na

\* replace_all: one of the four elements of the row is missing
MissingAll(str, repl, pat, mrg) == str.na \/ repl.na \/ pat.na \/ mrg.na

\* replace_first/last: one of the three elements of the row is missing
MissingFirstLast(str, repl, pat) == str.na \/ repl.na \/ pat.na

\* stri_replace_all_charclass, the body of the loop over the rows
ReplaceAllRow(data, str, pat, repl, mrg) ==
    IF MissingAll(str, repl, pat, mrg)
    THEN [result |-> NA_STRING, data |-> data,
          cur |-> [NoRow EXCEPT !.str = str, !.outcome = "na"]]
    ELSE
      LET sc == ReplaceAllScan(str.v, pat.v, mrg.v, 0, 0, <<>>, 0)
          found == [NoRow EXCEPT !.str = str, !.occurrences = sc.occurrences,
                                 !.sumbytes = sc.sumbytes]
      IN
      IF sc.err
      THEN [result |-> NA_STRING, data |-> data, cur |-> [found EXCEPT !.outcome = "error"]]
      ELSE IF NoOccurrences(sc.occurrences)
      THEN [result |-> ToR(str.v), data |-> data, cur |-> [found EXCEPT !.outcome = "nomatch"]]
      ELSE
        LET buf_need == BufNeedAll(Len(str.v), sc.occurrences, Len(repl.v), sc.sumbytes)
            mem == CopySpans(Mem(Resize(data, buf_need)), str.v, repl.v, sc.occurrences, 1, 0, 0)
        IN  [result |-> MkCharLen(mem.data, buf_need),
             data |-> SubSeq(mem.data, 1, mem.cap),
             cur |-> [found EXCEPT !.outcome = "match", !.buf_need = buf_need,
                                   !.written = mem.written, !.overflow = mem.overflow]]

\* stri__replace_firstlast_charclass, the body of the loop over the rows
ReplaceFirstLastRow(data, str, pat, repl, first) ==
    IF MissingFirstLast(str, repl, pat)
    THEN [result |-> NA_STRING, data |-> data,
          cur |-> [NoRow EXCEPT !.str = str, !.outcome = "na"]]
    ELSE
      LET sc == IF first THEN SearchFirst(str.v, pat.v, 0, 0)
                ELSE SearchLast(str.v, pat.v, Len(str.v), Len(str.v))
          found == [NoRow EXCEPT !.str = str, !.j = sc.j, !.jlast = sc.jlast]
      IN
      IF sc.err
      THEN [result |-> NA_STRING, data |-> data, cur |-> [found EXCEPT !.outcome = "error"]]
      ELSE IF NotFound(sc.j, sc.jlast)
      THEN [result |-> ToR(str.v), data |-> data, cur |-> [found EXCEPT !.outcome = "nomatch"]]
      ELSE
        LET buf_need == BufNeedOne(Len(str.v), Len(repl.v), sc.j, sc.jlast)
            mem == CopyOne(Mem(Resize(data, buf_need)), str.v, repl.v, sc.j, sc.jlast)
        IN  [result |-> MkCharLen(mem.data, buf_need),
             data |-> SubSeq(mem.data, 1, mem.cap),
             cur |-> [found EXCEPT !.outcome = "match", !.buf_need = buf_need,
                                   !.occurrences = <<<<sc.jlast, sc.j>>>>,
                                   !.written = mem.written, !.overflow = mem.overflow]]

\* stri__locate_firstlast_charclass, the body of the loop over the rows:
\* the result is the row (ret_tab[i], ret_tab[i+vectorize_length])
LocateFirstLastRow(str, pat, first) ==
    IF str.na \/ pat.na
    THEN [result |-> <<NA_INTEGER, NA_INTEGER>>, data |-> <<>>,
          cur |-> [NoRow EXCEPT !.str = str, !.outcome = "na"]]
    ELSE
      LET sc == LocateScan(str.v, pat.v, first, 0, 0, NA_INTEGER)
          found == [NoRow EXCEPT !.str = str]
      IN
      IF sc.err
      THEN [result |-> <<sc.found, NA_INTEGER>>, data |-> <<>>,
            cur |-> [found EXCEPT !.outcome = "error"]]
      ELSE [result |-> <<sc.found, sc.found>>, data |-> <<>>,
            cur |-> [found EXCEPT !.outcome =
                        IF sc.found = NA_INTEGER THEN "nomatch" ELSE "match"]]

\* stri_locate_all_charclass, the body of the loop over the rows
LocateAllRow(str, pat, mrg) ==
    IF pat.na \/ str.na \/ mrg.na
    THEN [result |-> notfound, data |-> <<>>,
          cur |-> [NoRow EXCEPT !.str = str, !.outcome = "na"]]
    ELSE
      LET sc == LocateAllScan(str.v, pat.v, 0, 0, <<>>)
          found == [NoRow EXCEPT !.str = str, !.occurrences = sc.occurrences]
      IN
      IF sc.err
      THEN [result |-> notfound, data |-> <<>>, cur |-> [found EXCEPT !.outcome = "error"]]
      ELSE IF Len(sc.occurrences) = 0
      THEN [result |-> notfound, data |-> <<>>, cur |-> [found EXCEPT !.outcome = "nomatch"]]
      ELSE [result |-> LocateAllMatrix(mrg.v, sc.occurrences), data |-> <<>>,
            cur |-> [found EXCEPT !.outcome = "match"]]

(***************************************************************************)
(* The calls.  pattern, replacement and merge are arguments of length one, *)
(* recycled over the rows; str has one element per row.                    *)
(***************************************************************************)
NoResult == [returned |-> FALSE, value |-> <<>>]

InitCall(rows) ==
    /\ op \in Ops
    /\ n \in rows
    /\ pattern \in PatternInputs
    /\ replacement \in IF op \in ReplaceOps THEN ReplacementInputs ELSE {Val(<<>>)}
    /\ merge \in IF op \in {"replace_all", "locate_all"} THEN LogicalInputs ELSE {Val(FALSE)}
    /\ i = 0
    /\ ret = <<>>
    /\ buf = <<>>
    /\ cur = NoRow
    /\ outcomes = <<>>
    /\ status = "running"
    /\ returned = NoResult

\* the end of a pass: continue with the next row, or throw StriException,
\* which leaves the loop and skips the return of ret
EndOfPass(r) ==
    /\ cur' = r.cur
    /\ buf' = r.data
    /\ IF r.cur.outcome = "error"
       THEN /\ status' = "error"
            /\ UNCHANGED <<ret, i, outcomes>>
       ELSE /\ ret' = Append(ret, r.result)
            /\ outcomes' = Append(outcomes, r.cur.outcome)
            /\ i' = i + 1
            /\ UNCHANGED status
    /\ UNCHANGED <<op, n, pattern, replacement, merge, returned>>

InLoop == status = "running" /\ i < n

ReplaceAllStep(strs) ==
    /\ InLoop /\ op = "replace_all"
    /\ \E str \in strs : EndOfPass(ReplaceAllRow(buf, str, pattern, replacement, merge))

ReplaceFirstLastStep(strs) ==
    /\ InLoop /\ op \in {"replace_first", "replace_last"}
    /\ \E str \in strs :
         EndOfPass(ReplaceFirstLastRow(buf, str, pattern, replacement, op = "replace_first"))

LocateFirstLastStep(strs) ==
    /\ InLoop /\ op \in {"locate_first", "locate_last"}
    /\ \E str \in strs : EndOfPass(LocateFirstLastRow(str, pattern, op = "locate_first"))

LocateAllStep(strs) ==
    /\ InLoop /\ op = "locate_all"
    /\ \E str \in strs : EndOfPass(LocateAllRow(str, pattern, merge))

\* return ret
Return ==
    /\ status = "running" /\ i = n
    /\ status' = "returned"
    /\ returned' = [returned |-> TRUE, value |-> ret]
    /\ UNCHANGED <<op, n, pattern, replacement, merge, i, ret, buf, cur, outcomes>>

BatchStrs == StrInputs(MaxBatchLen)
RowStrs == StrInputs(MaxLen)

\* calls of up to MaxRows rows of short strings
Init == InitCall(1..MaxRows)

Next ==
    \/ ReplaceAllStep(BatchStrs)
    \/ ReplaceFirstLastStep(BatchStrs)
    \/ LocateFirstLastStep(BatchStrs)
    \/ LocateAllStep(BatchStrs)
    \/ Return

Spec == Init /\ [][Next]_vars

\* calls of one row of a longer string
InitOneRow == InitCall({1})

NextOneRow ==
    \/ ReplaceAllStep(RowStrs)
    \/ ReplaceFirstLastStep(RowStrs)
    \/ LocateFirstLastStep(RowStrs)
    \/ LocateAllStep(RowStrs)
    \/ Return

SpecOneRow == InitOneRow /\ [][NextOneRow]_vars

(***************************************************************************)
(* UTF-8 as the Unicode standard defines it (sequences of one to three     *)
(* bytes), for stating the properties: independent of U8_NEXT and U8_PREV. *)
(***************************************************************************)
IsEncoding(u) ==
    \/ Len(u) = 1 /\ u[1] < 128
    \/ Len(u) = 2 /\ u[1] \in 194..223 /\ u[2] \in 128..191
    \/ /\ Len(u) = 3
       /\ \/ u[1] = 224 /\ u[2] \in 160..191
          \/ u[1] \in (225..236) \cup (238..239) /\ u[2] \in 128..191
          \/ u[1] = 237 /\ u[2] \in 128..159
       /\ u[3] \in 128..191

ScalarOf(u) ==
    CASE Len(u) = 1 -> u[1]
      [] Len(u) = 2 -> (u[1] - 192) * 64 + (u[2] - 128)
      [] Len(u) = 3 -> (u[1] - 224) * 4096 + (u[2] - 128) * 64 + (u[3] - 128)

\* the code points of s from byte offset j on, each with its byte range
\* [from, to), up to the end of s (ok) or to the first malformed sequence
RECURSIVE Units(_, _)
Units(s, j) ==
    IF j >= Len(s) THEN [ok |-> TRUE, units |-> <<>>]
    ELSE
      LET lens == {k \in 1..3 : j + k <= Len(s) /\ IsEncoding(SubSeq(s, j + 1, j + k))} IN
      IF lens = {} THEN [ok |-> FALSE, units |-> <<>>]
      ELSE LET k == CHOOSE x \in lens : TRUE
               rest == Units(s, j + k)
           IN  [ok |-> rest.ok,
                units |-> <<[c |-> ScalarOf(SubSeq(s, j + 1, j + k)), from |-> j, to |-> j + k]>>
                          \o rest.units]

\* the code points of s that end at byte offset j or before, last one first,
\* down to the start of s (ok) or to the first sequence that is malformed
RECURSIVE UnitsBack(_, _)
UnitsBack(s, j) ==
    IF j <= 0 THEN [ok |-> TRUE, units |-> <<>>]
    ELSE
      LET lens == {k \in 1..3 : j - k >= 0 /\ IsEncoding(SubSeq(s, j - k + 1, j))} IN
      IF lens = {} THEN [ok |-> FALSE, units |-> <<>>]
      ELSE LET k == CHOOSE x \in lens : TRUE
               rest == UnitsBack(s, j - k)
           IN  [ok |-> rest.ok,
                units |-> <<[c |-> ScalarOf(SubSeq(s, j - k + 1, j)), from |-> j - k, to |-> j]>>
                          \o rest.units]

WellFormed(s) == Units(s, 0).ok
CodePoints(s) == Units(s, 0).units
\* the 1-based indices of the code points of s that are in the class P
Matched(s, P) == {k \in 1..Len(CodePoints(s)) : CodePoints(s)[k].c \in P}

\* the last pass was over a row without a missing input
Scanned == cur.outcome \in {"nomatch", "match", "error"}
\* the last pass completed a row without a missing input
Completed == cur.outcome \in {"nomatch", "match"} /\ status # "error"
FullScanOps == {"replace_all", "locate_all", "locate_last"}

\* the scan of op over s meets a malformed sequence before it stops
MeetsMalformed(o, s, P) ==
    LET fwd == Units(s, 0)
        bwd == UnitsBack(s, Len(s))
        none(u) == \A k \in 1..Len(u.units) : u.units[k].c \notin P
    IN  CASE o \in FullScanOps -> ~fwd.ok
          [] o \in {"replace_first", "locate_first"} -> ~fwd.ok /\ none(fwd)
          [] o = "replace_last" -> ~bwd.ok /\ none(bwd)

(***************************************************************************)
(* C1, as claimed: a malformed sequence at any byte position of the string *)
(* of a non-missing row ends the call in the Invalid Encoding failure,     *)
(* with no result collection returned.                                     *)
(***************************************************************************)
C1_AnyMalformedByteAborts ==
    (Scanned /\ ~WellFormed(cur.str.v)) => (status = "error" /\ returned = NoResult)

(***************************************************************************)
(* C1, amended: the call ends in the Invalid Encoding failure, and returns *)
(* no result collection, exactly when the scan of a non-missing row meets  *)
(* a malformed sequence before it stops.  replace_all, locate_all and      *)
(* locate_last scan the whole string; replace_first and locate_first stop  *)
(* at the first match going forward, replace_last at the first match going *)
(* backward from the end, and what lies beyond is not decoded.             *)
(***************************************************************************)
C1_ScannedMalformedAborts ==
    /\ Scanned => (cur.outcome = "error" <=> MeetsMalformed(op, cur.str.v, pattern.v))
    /\ cur.outcome = "error" <=> status = "error"
    /\ status = "error" => returned = NoResult
    /\ returned.returned => (status = "returned" /\ returned.value = ret /\ Len(ret) = n)

\* a second row is malformed after a first row was replaced: nothing is returned
C1_Witness ==
    /\ status = "error" /\ returned = NoResult
    /\ Len(ret) = 1 /\ outcomes = <<"match">> /\ op \in ReplaceOps

(***************************************************************************)
(* C2: in replace_all, replace_first and replace_last a row with a missing *)
(* input gives NA_STRING whatever its other inputs are (a malformed string *)
(* of that row is not scanned and raises no error), and the loop goes on   *)
(* to the next row.                                                        *)
(***************************************************************************)
RowMissing ==
    \/ cur.str.na \/ pattern.na \/ replacement.na
    \/ (op = "replace_all" /\ merge.na)

C2_MissingRowGivesNA ==
    (op \in ReplaceOps /\ cur.outcome # "none") =>
        /\ RowMissing <=> cur.outcome = "na"
        /\ cur.outcome = "na" =>
             /\ status # "error"
             /\ i = Len(ret) /\ ret[i] = NA_STRING /\ outcomes[i] = "na"
             /\ status = "running" => (i < n \/ ENABLED Return)
        /\ \A k \in 1..Len(ret) : outcomes[k] = "na" <=> ret[k] = NA_STRING

\* a row with a missing string was followed by a row that was replaced
C2_Witness ==
    /\ op \in ReplaceOps /\ Len(ret) = 2
    /\ outcomes = <<"na", "match">> /\ ret[1] = NA_STRING /\ ret[2].kind = "new"

\* a row with a missing class and a malformed string raised no error
C2_WitnessMalformed ==
    /\ op \in ReplaceOps /\ cur.outcome = "na" /\ pattern.na
    /\ ~cur.str.na /\ ~WellFormed(cur.str.v) /\ status = "returned"

(***************************************************************************)
(* C3, as claimed: in every operation no row without a match gives the     *)
(* same result as a row with a missing input.                              *)
(***************************************************************************)
C3_NoMatchDiffersFromMissing ==
    \A a, b \in 1..Len(ret) :
        (outcomes[a] = "nomatch" /\ outcomes[b] = "na") => ret[a] # ret[b]

(***************************************************************************)
(* C3, amended: in replace_all, replace_first and replace_last a row       *)
(* without a match (the input string) differs from a row with a missing    *)
(* input (NA_STRING); in locate_first, locate_last and locate_all the two  *)
(* give the same result, the pair (NA, NA).                                *)
(***************************************************************************)
C3_NoMatchVersusMissing ==
    \A a, b \in 1..Len(ret) :
        (outcomes[a] = "nomatch" /\ outcomes[b] = "na") =>
            /\ op \in ReplaceOps => ret[a] # ret[b]
            /\ op \in LocateOps => ret[a] = ret[b]
            /\ op \in {"locate_first", "locate_last"} => ret[a] = <<NA_INTEGER, NA_INTEGER>>
            /\ op = "locate_all" => ret[a] = <<<<NA_INTEGER, NA_INTEGER>>>>

\* locate: a row with a missing string, then a row without a match
C3_Witness ==
    /\ op \in LocateOps /\ outcomes = <<"na", "nomatch">> /\ ret[1] = ret[2]


(***************************************************************************)
(* Reference results, from the code points of a well-formed string.        *)
(***************************************************************************)
\* s with the replacement r in place of every code point in P, or, when
\* merging, in place of every maximal run of such code points
RECURSIVE RefSubst(_, _, _, _, _, _)
RefSubst(s, P, r, mrg, k, prevMatched) ==
    IF k > Len(CodePoints(s)) THEN <<>>
    ELSE
      LET u == CodePoints(s)[k]
          m == u.c \in P
          piece == IF m THEN (IF mrg /\ prevMatched THEN <<>> ELSE r)
                   ELSE SubSeq(s, u.from + 1, u.to)
      IN  piece \o RefSubst(s, P, r, mrg, k + 1, m)

\* the number of bytes of the code points with indices in K
RECURSIVE BytesOf(_, _)
BytesOf(s, K) ==
    IF K = {} THEN 0
    ELSE LET k == CHOOSE x \in K : TRUE
         IN  (CodePoints(s)[k].to - CodePoints(s)[k].from) + BytesOf(s, K \ {k})

\* the maximal runs of consecutive indices of the set M, as pairs
Runs(M) == {<<a, b>> \in M \X M :
               /\ a <= b
               /\ \A k \in a..b : k \in M
               /\ (a - 1) \notin M /\ (b + 1) \notin M}

Min(M) == CHOOSE k \in M : \A x \in M : k <= x
Max(M) == CHOOSE k \in M : \A x \in M : k >= x

\* the last pass replaced something in a well-formed string
Replaced == op \in ReplaceOps /\ cur.outcome = "match" /\ WellFormed(cur.str.v)
\* the last pass located something in a well-formed string
Located == op \in LocateOps /\ cur.outcome = "match" /\ WellFormed(cur.str.v)

(***************************************************************************)
(* C4: in replace_all (merging or not), replace_first and replace_last, a  *)
(* non-missing row in which no code point of the string is in the class    *)
(* (the empty string and the empty class included) gives the input string  *)
(* itself, and the pass neither resizes nor writes the scratch buffer.     *)
(***************************************************************************)
C4_NoMatchKeepsString ==
    [][(/\ op \in ReplaceOps /\ cur' # cur
        /\ ~RowMissing' /\ WellFormed(cur'.str.v)
        /\ Matched(cur'.str.v, pattern.v) = {})
       => (/\ cur'.outcome = "nomatch" /\ status' = "running"
           /\ Len(ret') = Len(ret) + 1
           /\ ret'[Len(ret')] = [kind |-> "orig", bytes |-> cur'.str.v]
           /\ buf' = buf
           /\ cur'.written = {} /\ cur'.buf_need = 0)]_vars

\* a row without a match after a row that left its result in the buffer
C4_Witness ==
    /\ op \in ReplaceOps /\ outcomes = <<"match", "nomatch">>
    /\ Len(buf) > 0 /\ ret[1].bytes = buf
    /\ ret[2] = [kind |-> "orig", bytes |-> cur.str.v] /\ Len(cur.str.v) > 0

(***************************************************************************)
(* C5: for a well-formed string with a match, the size computed before the *)
(* copy is the length of the string, plus the length of the replacement    *)
(* for every span (every run when merging, one span in replace_first/last),*)
(* minus the bytes of all matched code points (of the one code point in    *)
(* replace_first/last); it is not negative, the copy writes every offset   *)
(* below it and none at or above it, and the result is those bytes, also   *)
(* when the buffer still holds a longer result of an earlier row.          *)
(***************************************************************************)
C5_BufferSizedExactly ==
    Replaced =>
        LET s == cur.str.v
            M == Matched(s, pattern.v)
            one == IF op = "replace_first" THEN {Min(M)} ELSE {Max(M)}
            spans == IF op # "replace_all" THEN 1
                     ELSE IF merge.v THEN Cardinality(Runs(M))
                     ELSE Cardinality(M)
            bytes == IF op # "replace_all" THEN BytesOf(s, one) ELSE BytesOf(s, M)
            need == Len(s) + spans * Len(replacement.v) - bytes
        IN  /\ cur.buf_need = need
            /\ need >= 0
            /\ cur.written = 0..(need - 1)
            /\ ~cur.overflow
            /\ Len(buf) >= need
            /\ ret[i].kind = "new"
            /\ Len(ret[i].bytes) = need
            /\ ret[i].bytes = SubSeq(buf, 1, need)
            /\ \A k \in 1..need : ret[i].bytes[k] # Junk

\* the second row's result is shorter than what the buffer holds from the first
C5_Witness ==
    /\ Replaced /\ outcomes = <<"match", "match">>
    /\ cur.buf_need > 0 /\ Len(buf) > cur.buf_need
    /\ Len(ret[1].bytes) = Len(buf)

(***************************************************************************)
(* C6: for a well-formed string with a match, replace_all gives the string *)
(* with the bytes of the code points outside the class kept in order and   *)
(* the replacement once in place of every code point in the class, or,     *)
(* when merging, once in place of every maximal run of them.               *)
(***************************************************************************)
C6_ReplaceAllIsSubstitution ==
    (Replaced /\ op = "replace_all") =>
        /\ ret[i].kind = "new"
        /\ ret[i].bytes = RefSubst(cur.str.v, pattern.v, replacement.v, merge.v, 1, FALSE)

\* "aa" e-acute "a", class {a}, replacement "_", merging: "_" e-acute "_"
C6_Witness ==
    /\ Replaced /\ op = "replace_all" /\ merge.v
    /\ cur.str.v = <<97, 97, 195, 169, 97>> /\ pattern.v = {97}
    /\ ret[i].bytes = <<95, 195, 169, 95>>

(***************************************************************************)
(* C7: for a well-formed string with a match, replace_first and            *)
(* replace_last give prefix, replacement, suffix, where the bytes removed  *)
(* are those of the first, respectively last, code point in the class as   *)
(* forward decoding delimits it: the span is the first, respectively last, *)
(* span that replace_all finds without merging.                            *)
(***************************************************************************)
C7_FirstLastSpan ==
    (Replaced /\ op \in {"replace_first", "replace_last"}) =>
        LET s == cur.str.v
            M == Matched(s, pattern.v)
            u == CodePoints(s)[IF op = "replace_first" THEN Min(M) ELSE Max(M)]
            all == ReplaceAllScan(s, pattern.v, FALSE, 0, 0, <<>>, 0).occurrences
            span == IF op = "replace_first" THEN all[1] ELSE all[Len(all)]
        IN  /\ cur.occurrences = <<span>>
            /\ span = <<u.from, u.to>>
            /\ ret[i].bytes = SubSeq(s, 1, span[1]) \o replacement.v
                                \o SubSeq(s, span[2] + 1, Len(s))

\* replace_last of e-acute "a" e-acute, class {e-acute}: the last two bytes go
C7_Witness ==
    /\ Replaced /\ op = "replace_last"
    /\ cur.str.v = <<195, 169, 97, 195, 169>> /\ pattern.v = {233, 10857}
    /\ cur.occurrences = <<<<3, 5>>>>
    /\ ret[i].bytes = <<195, 169, 97>> \o replacement.v

(***************************************************************************)
(* C8: for a non-missing row with a well-formed string, locate_first       *)
(* (locate_last) gives the pair (k, k), k the 1-based index, counted in    *)
(* code points from the start, of the first (last) code point in the       *)
(* class, and (NA, NA) when there is none; the two fields of a pair are    *)
(* always equal.                                                           *)
(***************************************************************************)
C8_LocateFirstLast ==
    (op \in {"locate_first", "locate_last"} /\ cur.outcome # "none") =>
        /\ \A k \in 1..Len(ret) : ret[k][1] = ret[k][2]
        /\ (Completed /\ WellFormed(cur.str.v)) =>
             LET M == Matched(cur.str.v, pattern.v) IN
             /\ M = {} => ret[i] = <<NA_INTEGER, NA_INTEGER>> /\ cur.outcome = "nomatch"
             /\ M # {} => /\ cur.outcome = "match"
                          /\ ret[i][1] = IF op = "locate_first" THEN Min(M) ELSE Max(M)

\* locate_last of e-acute e-acute "a", class {a}: index 3, not byte offset 4
C8_Witness ==
    /\ op = "locate_last" /\ Located
    /\ cur.str.v = <<195, 169, 195, 169, 97>> /\ pattern.v = {97}
    /\ ret[i] = <<3, 3>>

\* the indices that the rows of a matrix cover
Covered(m) == UNION {m[f][1]..m[f][2] : f \in 1..Len(m)}

\* the indices of a set in increasing order
RECURSIVE Sorted(_)
Sorted(M) == IF M = {} THEN <<>> ELSE <<Min(M)>> \o Sorted(M \ {Min(M)})

(***************************************************************************)
(* C9: for a well-formed string with a match, locate_all without merging   *)
(* gives one pair (k, k) per code point in the class, in increasing k;     *)
(* with merging it gives the pairs (first, last) of the maximal runs of    *)
(* consecutive matched indices in increasing order: every matched index is *)
(* in exactly one run, every index of a run is matched, no two runs are    *)
(* adjacent, and merging the indices of the result gives the result again. *)
(***************************************************************************)
C9_LocateAllRuns ==
    (Located /\ op = "locate_all") =>
        LET M == Matched(cur.str.v, pattern.v)
            m == ret[i]
        IN  /\ M # {}
            /\ \A f \in 1..(Len(m) - 1) : m[f][2] < m[f + 1][1]
            /\ Covered(m) = M
            /\ ~merge.v => /\ Len(m) = Cardinality(M)
                           /\ \A f \in 1..Len(m) : m[f][1] = m[f][2]
            /\ merge.v => /\ {m[f] : f \in 1..Len(m)} = Runs(M)
                          /\ Len(m) = Cardinality(Runs(M))
                          /\ \A f \in 1..(Len(m) - 1) : m[f + 1][1] > m[f][2] + 1
                          /\ LocateAllMatrix(TRUE, Sorted(Covered(m))) = m

\* "aa" e-acute "a", class {a}, merging: the runs (1,2) and (4,4)
C9_Witness ==
    /\ Located /\ op = "locate_all" /\ merge.v
    /\ cur.str.v = <<97, 97, 195, 169, 97>>
    /\ ret[i] = <<<<1, 2>>, <<4, 4>>>>

(***************************************************************************)
(* C10: for a well-formed string with a match, the start of the first pair *)
(* of the locate_all result, merged or not, is the index that locate_first *)
(* gives for the same string and class.                                    *)
(***************************************************************************)
C10_FirstOfAllIsFirst ==
    (Located /\ op = "locate_all") =>
        LET first == LocateFirstLastRow(cur.str, pattern, TRUE) IN
        /\ first.cur.outcome = "match"
        /\ ret[i][1][1] = first.result[1]
        /\ first.result[1] \in 1..Len(cur.str.v)

\* merging, the first run starts at the second code point and is two long
C10_Witness ==
    /\ Located /\ op = "locate_all" /\ merge.v
    /\ ret[i][1] = <<2, 3>>
    /\ LocateFirstLastRow(cur.str, pattern, TRUE).result = <<2, 2>>


(***************************************************************************)
(* C11: for a well-formed string and a class, merging, the spans that      *)
(* replace_all merges by byte adjacency (the end of the last span is the   *)
(* start of the matching code point) and the runs that locate_all merges   *)
(* by index adjacency (the end of the last run is the index minus 1)       *)
(* correspond: there are as many spans as runs, and the f-th span is the   *)
(* byte range of the code points first..last of the f-th run.              *)
(***************************************************************************)
C11_ByteAndIndexMergeCorrespond ==
    (/\ op = "replace_all" /\ cur.outcome \in {"nomatch", "match"}
     /\ merge.v /\ WellFormed(cur.str.v)) =>
        LET s == cur.str.v
            spans == cur.occurrences
            indices == LocateAllScan(s, pattern.v, 0, 0, <<>>).occurrences
            runs == IF Len(indices) = 0 THEN <<>> ELSE LocateAllMatrix(TRUE, indices)
        IN  /\ Len(spans) = Len(runs)
            /\ (cur.outcome = "nomatch") <=> (LocateAllRow(cur.str, pattern, merge).result = notfound)
            /\ \A f \in 1..Len(spans) :
                 /\ runs[f][1] <= runs[f][2]
                 /\ spans[f] = <<CodePoints(s)[runs[f][1]].from, CodePoints(s)[runs[f][2]].to>>

\* "a" e-acute e-acute "a", class {e-acute}: the span [1,5) and the run (2,3)
C11_Witness ==
    /\ op = "replace_all" /\ cur.outcome = "match" /\ merge.v
    /\ cur.str.v = <<97, 195, 169, 195, 169>> /\ pattern.v = {233, 10857}
    /\ cur.occurrences = <<<<1, 5>>>>
    /\ LocateAllRow(cur.str, pattern, merge).result = <<<<2, 3>>>>

====
